---------------------------- MODULE Spec2Model ----------------------------
(***************************************************************************)
(* Model of the NYC motor-vehicle-collision dashboard                      *)
(* (src/dashboard.py, src/helper.py): the cached loader, the cleaning       *)
(* pipeline scrub_data and the views computed from the cleaned frame.       *)
(*                                                                         *)
(* Text fields are sequences of one-character strings, so that parsing and *)
(* formatting are computed character by character.  A cell of a data frame *)
(* is a record tagged by its field t:                                       *)
(*   "nan"  a missing value (None / NaN / NaT)                              *)
(*   "str"  a Python string                    s : sequence of characters   *)
(*   "num"  a number n/d (d a power of ten)    n : Int, d : Nat             *)
(*   "time" a datetime.time object             h, mi                        *)
(*   "ts"   a pandas Timestamp                 y, mo, d, h, mi              *)
(***************************************************************************)
EXTENDS Integers, Sequences, FiniteSets, TLC

(***************************************************************************)
(* Bounds of the model.                                                    *)
(***************************************************************************)
MaxRows == 2          \* rows held by the remote source (pipeline runs)
MaxStreetRows == 6    \* rows held by the remote source (street-table runs)
MaxLimit == 2         \* distinct row limits requested from the loader

(***************************************************************************)
(* Cells.                                                                  *)
(***************************************************************************)
NaN == [t |-> "nan"]
Str(s) == [t |-> "str", s |-> s]
Num(n, d) == [t |-> "num", n |-> n, d |-> d]
Time(h, mi) == [t |-> "time", h |-> h, mi |-> mi]
Ts(y, mo, d, h, mi) == [t |-> "ts", y |-> y, mo |-> mo, d |-> d, h |-> h, mi |-> mi]

IsNull(c) == c.t = "nan"

(***************************************************************************)
(* Characters and digit strings.                                           *)
(***************************************************************************)
DigitChars == <<"0", "1", "2", "3", "4", "5", "6", "7", "8", "9">>
IsDigit(c) == \E i \in 1..10 : DigitChars[i] = c
DigitVal(c) == (CHOOSE i \in 1..10 : DigitChars[i] = c) - 1
AllDigits(s) == \A i \in 1..Len(s) : IsDigit(s[i])

RECURSIVE Pow10(_)
Pow10(k) == IF k = 0 THEN 1 ELSE 10 * Pow10(k - 1)

RECURSIVE NatOf(_)
\* value of a non-empty sequence of digits
NatOf(s) ==
    IF Len(s) = 0 THEN 0
    ELSE 10 * NatOf(SubSeq(s, 1, Len(s) - 1)) + DigitVal(s[Len(s)])

RECURSIVE SplitOn(_, _)
\* str.split(sep): the maximal pieces of s between occurrences of sep
SplitOn(s, sep) ==
    IF \A i \in 1..Len(s) : s[i] # sep THEN <<s>>
    ELSE LET k == CHOOSE i \in 1..Len(s) :
                      s[i] = sep /\ \A j \in 1..(i - 1) : s[j] # sep
         IN  <<SubSeq(s, 1, k - 1)>> \o SplitOn(SubSeq(s, k + 1, Len(s)), sep)

\* zero-padded decimal rendering of n in w digits (%Y, %m, %d of strftime)
RECURSIVE Pad(_, _)
Pad(n, w) ==
    IF w = 0 THEN <<>>
    ELSE Pad(n \div 10, w - 1) \o <<DigitChars[(n % 10) + 1]>>


(***************************************************************************)
(* Parsers.  Each returns a record whose field ok tells whether the text   *)
(* was accepted; a refused text is what makes pandas raise.                *)
(***************************************************************************)
\* Python's float() / pd.to_numeric on a decimal literal:
\* [sign] digits [ "." digits ], at least one digit in all.
ParseDecimal(s) ==
    LET signed == Len(s) > 0 /\ s[1] \in {"-", "+"}
        body == IF signed THEN SubSeq(s, 2, Len(s)) ELSE s
        parts == SplitOn(body, ".")
        ip == parts[1]
        fp == IF Len(parts) = 2 THEN parts[2] ELSE <<>>
        wellformed == /\ Len(parts) \in {1, 2}
                      /\ AllDigits(ip) /\ AllDigits(fp)
                      /\ Len(ip) + Len(fp) > 0
        mag == NatOf(ip) * Pow10(Len(fp)) + NatOf(fp)
    IN  IF wellformed
        THEN [ok |-> TRUE,
              n |-> IF signed /\ s[1] = "-" THEN 0 - mag ELSE mag,
              d |-> Pow10(Len(fp))]
        ELSE [ok |-> FALSE, n |-> 0, d |-> 1]

IsLeap(y) == (y % 4 = 0 /\ y % 100 # 0) \/ y % 400 = 0
DaysInMonth(y, m) ==
    IF m = 2 THEN (IF IsLeap(y) THEN 29 ELSE 28)
    ELSE IF m \in {4, 6, 9, 11} THEN 30 ELSE 31

\* the time of day of an ISO timestamp: hh:mm:ss with an optional fraction
IsIsoClock(s) ==
    LET sf == SplitOn(s, ".")
        hms == SplitOn(sf[1], ":")
    IN  /\ Len(sf) \in {1, 2}
        /\ Len(sf) = 2 => (Len(sf[2]) > 0 /\ AllDigits(sf[2]))
        /\ Len(hms) = 3
        /\ \A i \in 1..3 : Len(hms[i]) = 2 /\ AllDigits(hms[i])
        /\ NatOf(hms[1]) <= 23 /\ NatOf(hms[2]) <= 59 /\ NatOf(hms[3]) <= 59

\* a calendar date "YYYY-MM-DD"
ParseYmd(s) ==
    LET parts == SplitOn(s, "-")
        shape == /\ Len(parts) = 3
                 /\ \A i \in 1..3 : AllDigits(parts[i])
                 /\ Len(parts[1]) = 4 /\ Len(parts[2]) = 2 /\ Len(parts[3]) = 2
        y == NatOf(parts[1])
        m == NatOf(parts[2])
        d == NatOf(parts[3])
    IN  IF shape /\ m \in 1..12 /\ d >= 1 /\ d <= DaysInMonth(y, m)
        THEN [ok |-> TRUE, y |-> y, mo |-> m, d |-> d]
        ELSE [ok |-> FALSE, y |-> 0, mo |-> 0, d |-> 0]

\* pd.to_datetime on the texts the model feeds it: an ISO date
\* "YYYY-MM-DD", alone or followed by "T" and a time of day (the form the
\* source serves, "2021-09-11T00:00:00.000"); any other text is refused.
ParseDate(s) ==
    LET dt == SplitOn(s, "T")
        date == ParseYmd(dt[1])
    IN  IF Len(dt) = 1 \/ (Len(dt) = 2 /\ IsIsoClock(dt[2]))
        THEN date
        ELSE [ok |-> FALSE, y |-> 0, mo |-> 0, d |-> 0]

\* strftime('%Y-%m-%d')
FormatDate(y, m, d) == Pad(y, 4) \o <<"-">> \o Pad(m, 2) \o <<"-">> \o Pad(d, 2)

\* pd.to_datetime(..., format='%H:%M'): one or two digits, ":", one or
\* two digits, hour 0..23, minute 0..59, nothing else.
ParseTime(s) ==
    LET parts == SplitOn(s, ":")
        shape == /\ Len(parts) = 2
                 /\ \A i \in 1..2 : /\ Len(parts[i]) \in {1, 2}
                                    /\ AllDigits(parts[i])
        h == NatOf(parts[1])
        mi == NatOf(parts[2])
    IN  IF shape /\ h <= 23 /\ mi <= 59
        THEN [ok |-> TRUE, h |-> h, mi |-> mi]
        ELSE [ok |-> FALSE, h |-> 0, mi |-> 0]

(***************************************************************************)
(* Data frames.  A frame is [columns, rows]: columns is the sequence of    *)
(* column labels, rows the sequence of rows in frame order; a row is        *)
(* [idx, v] with idx its index label and v the cells by column label.      *)
(***************************************************************************)
numeric_data ==
    <<"number_of_persons_injured", "number_of_pedestrians_injured",
      "number_of_cyclist_injured", "number_of_motorist_injured",
      "number_of_persons_killed", "number_of_pedestrians_killed",
      "number_of_cyclist_killed", "number_of_motorist_killed">>

\* the fields of a record of the remote dataset that the program reads
RawColumns ==
    <<"crash_date", "crash_time", "latitude", "longitude", "on_street_name">>
    \o numeric_data

Range(q) == {q[i] : i \in 1..Len(q)}

\* the elements of q that satisfy Test, in order (boolean-mask indexing)
Filter(q, Test(_)) == SelectSeq(q, Test)

EmptyFrame == [columns |-> <<>>, rows |-> <<>>]
HasCol(df, c) == c \in Range(df.columns)

\* df[c] = f(row): replaces the column c, or appends it as the last column
SetCol(df, c, f(_)) ==
    [columns |-> IF HasCol(df, c) THEN df.columns ELSE Append(df.columns, c),
     rows |-> [i \in 1..Len(df.rows) |->
                 [idx |-> df.rows[i].idx,
                  v |-> [k \in Range(df.columns) \cup {c} |->
                           IF k = c THEN f(df.rows[i]) ELSE df.rows[i].v[k]]]]]

\* pd.DataFrame.from_records(results): the columns are the keys some record
\* carries (the source omits the key of a missing value), the index is 0..n-1
FromRecords(results) ==
    LET present(c) == \E i \in 1..Len(results) : ~IsNull(results[i][c])
        cols == Filter(RawColumns, present)
    IN  [columns |-> cols,
         rows |-> [i \in 1..Len(results) |->
                     [idx |-> i - 1,
                      v |-> [k \in Range(cols) |-> results[i][k]]]]]

(***************************************************************************)
(* scrub_data, statement by statement.  Each step maps a frame to           *)
(* [exc, df]: exc is "none" or the exception raised, df the frame as the    *)
(* statement leaves it (the statements assign into the caller's frame).     *)
(***************************************************************************)
Ok(df) == [exc |-> "none", df |-> df]
Raise(e, df) == [exc |-> e, df |-> df]
\* Body applied to the value of v, v evaluated once
With(v, Body(_)) == CHOOSE y \in {Body(x) : x \in {v}} : TRUE

\* the next statement runs unless an exception has been raised
Then(prev, Step(_)) ==
    With(prev, LAMBDA p : IF p.exc # "none" THEN p ELSE Step(p.df))

NanText == <<"n", "a", "n">>
\* astype(str) of a cell of the date and time columns
AsText(c) ==
    IF c.t = "str" THEN c.s
    ELSE IF c.t = "time"
         THEN Pad(c.h, 2) \o <<":">> \o Pad(c.mi, 2) \o <<":", "0", "0">>
         ELSE NanText

\* line 42: df['crash_date'] = pd.to_datetime(df['crash_date']).dt.strftime(..)
ParseCrashDate(df) ==
    IF ~HasCol(df, "crash_date") THEN Raise("KeyError", df)
    ELSE IF \E i \in 1..Len(df.rows) :
                LET c == df.rows[i].v["crash_date"]
                IN  c.t = "str" /\ ~ParseDate(c.s).ok
         THEN Raise("ValueError", df)
         ELSE Ok(SetCol(df, "crash_date",
                 LAMBDA r : LET c == r.v["crash_date"]
                                p == ParseDate(c.s)
                            IN  IF IsNull(c) THEN NaN
                                ELSE Str(FormatDate(p.y, p.mo, p.d))))

\* line 43: df['crash_time'] = pd.to_datetime(.., format='%H:%M').dt.time
\* (a value that is not a string is matched through its str())
ParseCrashTime(df) ==
    IF ~HasCol(df, "crash_time") THEN Raise("KeyError", df)
    ELSE IF \E i \in 1..Len(df.rows) :
                LET c == df.rows[i].v["crash_time"]
                IN  ~IsNull(c) /\ ~ParseTime(AsText(c)).ok
         THEN Raise("ValueError", df)
         ELSE Ok(SetCol(df, "crash_time",
                 LAMBDA r : LET c == r.v["crash_time"]
                                p == ParseTime(AsText(c))
                            IN  IF IsNull(c) THEN NaN ELSE Time(p.h, p.mi)))

\* pd.to_datetime(text, format='%Y-%m-%d %H:%M:%S')
ParseDateTime(s) ==
    LET halves == SplitOn(s, " ")
        date == ParseYmd(halves[1])
        hms == SplitOn(halves[2], ":")
        shape == /\ Len(hms) = 3
                 /\ \A i \in 1..3 : Len(hms[i]) \in {1, 2} /\ AllDigits(hms[i])
    IN  IF /\ Len(halves) = 2
           /\ date.ok
           /\ shape
           /\ NatOf(hms[1]) <= 23 /\ NatOf(hms[2]) <= 59 /\ NatOf(hms[3]) <= 61
        THEN [ok |-> TRUE,
              ts |-> Ts(date.y, date.mo, date.d, NatOf(hms[1]), NatOf(hms[2]))]
        ELSE [ok |-> FALSE, ts |-> NaN]

\* line 44: the two columns as text, joined by a blank and parsed as one
CombineDateTime(df) ==
    LET text(r) == AsText(r.v["crash_date"]) \o <<" ">> \o AsText(r.v["crash_time"])
    IN  IF \E i \in 1..Len(df.rows) : ~ParseDateTime(text(df.rows[i])).ok
        THEN Raise("ValueError", df)
        ELSE Ok(SetCol(df, "crash_date_crash_time",
                LAMBDA r : ParseDateTime(text(r)).ts))

\* line 47: df.dropna(subset=['latitude', 'longitude'], inplace=True)
DropMissingCoordinates(df) ==
    IF ~HasCol(df, "latitude") \/ ~HasCol(df, "longitude")
    THEN Raise("KeyError", df)
    ELSE Ok([df EXCEPT !.rows =
                Filter(df.rows, LAMBDA r : /\ ~IsNull(r.v["latitude"])
                                           /\ ~IsNull(r.v["longitude"]))])

\* lines 48-51: the labels of the source are already lower case and free of
\* blanks; the combined column is renamed "date/time"
RenameLabel(c) == IF c = "crash_date_crash_time" THEN "date/time" ELSE c
UnrenameLabel(c) == IF c = "date/time" THEN "crash_date_crash_time" ELSE c
RenameColumns(df) ==
    Ok([columns |-> [i \in 1..Len(df.columns) |-> RenameLabel(df.columns[i])],
        rows |-> [i \in 1..Len(df.rows) |->
                    [idx |-> df.rows[i].idx,
                     v |-> [k \in {RenameLabel(c) : c \in Range(df.columns)} |->
                              df.rows[i].v[UnrenameLabel(k)]]]]])

\* pd.to_numeric(errors='coerce') of one cell
ToNumeric(c) ==
    IF c.t = "str"
    THEN LET p == ParseDecimal(c.s) IN IF p.ok THEN Num(p.n, p.d) ELSE NaN
    ELSE c

\* line 56: df[numeric_data] = df[numeric_data].apply(pd.to_numeric, errors='coerce')
CoerceCasualties(df) ==
    IF \E i \in 1..Len(numeric_data) : ~HasCol(df, numeric_data[i])
    THEN Raise("KeyError", df)
    ELSE Ok([df EXCEPT !.rows =
                [i \in 1..Len(df.rows) |->
                   [idx |-> df.rows[i].idx,
                    v |-> [k \in DOMAIN df.rows[i].v |->
                             IF k \in Range(numeric_data)
                             THEN ToNumeric(df.rows[i].v[k])
                             ELSE df.rows[i].v[k]]]]])

\* float(x) of one cell: ok is FALSE where Python raises ValueError
ToFloat(c) ==
    IF c.t = "str"
    THEN IF c.s = NanText THEN [ok |-> TRUE, cell |-> NaN]
         ELSE LET p == ParseDecimal(c.s)
              IN  [ok |-> p.ok, cell |-> IF p.ok THEN Num(p.n, p.d) ELSE NaN]
    ELSE [ok |-> TRUE, cell |-> c]

\* lines 57-58: df[c] = df[c].astype(float), for c latitude then longitude
AsFloat(df, c) ==
    IF \E i \in 1..Len(df.rows) : ~ToFloat(df.rows[i].v[c]).ok
    THEN Raise("ValueError", df)
    ELSE Ok(SetCol(df, c, LAMBDA r : ToFloat(r.v[c]).cell))

\* lines 61-64, in tenths of a degree
nyc_latitude_min == 404
nyc_latitude_max == 410
nyc_longitude_min == -743
nyc_longitude_max == -737

\* cell >= bound and cell <= bound for a bound in tenths; a comparison
\* with a missing value is False
GeTenths(c, tenths) == c.t = "num" /\ 10 * c.n >= tenths * c.d
LeTenths(c, tenths) == c.t = "num" /\ 10 * c.n <= tenths * c.d

\* a mask that leaves the box open to the north; the box property is also
\* checked with it in place of InNycBox, to see that it needs every bound
InNycBoxOpenNorth(r) ==
    /\ GeTenths(r.v["latitude"], nyc_latitude_min)
    /\ GeTenths(r.v["longitude"], nyc_longitude_min)
    /\ LeTenths(r.v["longitude"], nyc_longitude_max)

\* lines 65-66: the mask of the bounding box
InNycBox(r) ==
    /\ GeTenths(r.v["latitude"], nyc_latitude_min)
    /\ LeTenths(r.v["latitude"], nyc_latitude_max)
    /\ GeTenths(r.v["longitude"], nyc_longitude_min)
    /\ LeTenths(r.v["longitude"], nyc_longitude_max)

\* lines 65-66: df = df[mask], a new frame
SelectNycBox(df) == [df EXCEPT !.rows = Filter(df.rows, InNycBox)]

\* scrub_data(df): exc is the exception raised ("none" if it returns), df
\* the caller's frame as the call leaves it, ret the frame returned
ScrubSteps(df) ==
    Then(Then(Then(Then(Then(Then(Then(ParseCrashDate(df),
        LAMBDA f : ParseCrashTime(f)),
        LAMBDA f : CombineDateTime(f)),
        LAMBDA f : DropMissingCoordinates(f)),
        LAMBDA f : RenameColumns(f)),
        LAMBDA f : CoerceCasualties(f)),
        LAMBDA f : AsFloat(f, "latitude")),
        LAMBDA f : AsFloat(f, "longitude"))

scrub_data(df) ==
    With(ScrubSteps(df),
         LAMBDA r : [exc |-> r.exc,
                     df |-> r.df,
                     ret |-> IF r.exc = "none" THEN SelectNycBox(r.df)
                             ELSE EmptyFrame])

(***************************************************************************)
(* Records of the remote dataset.  A record is a function from RawColumns  *)
(* to cells: a text, or NaN for a key the record does not carry.           *)
(***************************************************************************)
\* a well-formed record inside the bounding box
RecordInside ==
    ("crash_date" :> Str(<<"2", "0", "2", "1", "-", "0", "9", "-", "1", "1", "T", "0", "0", ":", "0", "0", ":", "0", "0", ".", "0", "0", "0">>)
     @@ "crash_time" :> Str(<<"1", "7", ":", "0", "5">>)
     @@ "latitude" :> Str(<<"4", "0", ".", "7">>)
     @@ "longitude" :> Str(<<"-", "7", "4", ".", "0">>)
     @@ "on_street_name" :> Str(<<"B", "R", "O", "A", "D", "W", "A", "Y">>)
     @@ "number_of_persons_injured" :> Str(<<"2">>)
     @@ "number_of_pedestrians_injured" :> Str(<<"1">>)
     @@ "number_of_cyclist_injured" :> Str(<<"0">>)
     @@ "number_of_motorist_injured" :> Str(<<"1">>)
     @@ "number_of_persons_killed" :> Str(<<"0">>)
     @@ "number_of_pedestrians_killed" :> Str(<<"0">>)
     @@ "number_of_cyclist_killed" :> Str(<<"0">>)
     @@ "number_of_motorist_killed" :> Str(<<"0">>))

\* on a corner of the box, at 23:59, with missing and non-numeric counts and no street
RecordOnCorner ==
    ("crash_date" :> Str(<<"2", "0", "2", "1", "-", "0", "9", "-", "1", "2", "T", "0", "0", ":", "0", "0", ":", "0", "0", ".", "0", "0", "0">>)
     @@ "crash_time" :> Str(<<"2", "3", ":", "5", "9">>)
     @@ "latitude" :> Str(<<"4", "0", ".", "4">>)
     @@ "longitude" :> Str(<<"-", "7", "3", ".", "7">>)
     @@ "on_street_name" :> NaN
     @@ "number_of_persons_injured" :> NaN
     @@ "number_of_pedestrians_injured" :> Str(<<"x">>)
     @@ "number_of_cyclist_injured" :> Str(<<"3">>)
     @@ "number_of_motorist_injured" :> Str(<<"1", "6">>)
     @@ "number_of_persons_killed" :> Str(<<"1">>)
     @@ "number_of_pedestrians_killed" :> NaN
     @@ "number_of_cyclist_killed" :> Str(<<"1">>)
     @@ "number_of_motorist_killed" :> Str(<<"0">>))

\* north of the box
RecordOutside ==
    ("crash_date" :> Str(<<"2", "0", "2", "1", "-", "0", "9", "-", "1", "1", "T", "0", "0", ":", "0", "0", ":", "0", "0", ".", "0", "0", "0">>)
     @@ "crash_time" :> Str(<<"0", ":", "3", "0">>)
     @@ "latitude" :> Str(<<"4", "1", ".", "1">>)
     @@ "longitude" :> Str(<<"-", "7", "4", ".", "0">>)
     @@ "on_street_name" :> Str(<<"5", " ", "A", "V", "E">>)
     @@ "number_of_persons_injured" :> Str(<<"1">>)
     @@ "number_of_pedestrians_injured" :> Str(<<"1">>)
     @@ "number_of_cyclist_injured" :> Str(<<"0">>)
     @@ "number_of_motorist_injured" :> Str(<<"1">>)
     @@ "number_of_persons_killed" :> Str(<<"0">>)
     @@ "number_of_pedestrians_killed" :> Str(<<"0">>)
     @@ "number_of_cyclist_killed" :> Str(<<"0">>)
     @@ "number_of_motorist_killed" :> Str(<<"0">>))

\* no latitude
RecordNoLatitude ==
    ("crash_date" :> Str(<<"2", "0", "2", "1", "-", "0", "9", "-", "1", "1", "T", "0", "0", ":", "0", "0", ":", "0", "0", ".", "0", "0", "0">>)
     @@ "crash_time" :> Str(<<"1", "7", ":", "0", "5">>)
     @@ "latitude" :> NaN
     @@ "longitude" :> Str(<<"-", "7", "4", ".", "0">>)
     @@ "on_street_name" :> Str(<<"B", "R", "O", "A", "D", "W", "A", "Y">>)
     @@ "number_of_persons_injured" :> Str(<<"2">>)
     @@ "number_of_pedestrians_injured" :> Str(<<"1">>)
     @@ "number_of_cyclist_injured" :> Str(<<"0">>)
     @@ "number_of_motorist_injured" :> Str(<<"1">>)
     @@ "number_of_persons_killed" :> Str(<<"0">>)
     @@ "number_of_pedestrians_killed" :> Str(<<"0">>)
     @@ "number_of_cyclist_killed" :> Str(<<"0">>)
     @@ "number_of_motorist_killed" :> Str(<<"0">>))

\* a date that does not parse
RecordBadDate ==
    ("crash_date" :> Str(<<"u", "n", "k", "n", "o", "w", "n">>)
     @@ "crash_time" :> Str(<<"1", "7", ":", "0", "5">>)
     @@ "latitude" :> Str(<<"4", "0", ".", "7">>)
     @@ "longitude" :> Str(<<"-", "7", "4", ".", "0">>)
     @@ "on_street_name" :> Str(<<"B", "R", "O", "A", "D", "W", "A", "Y">>)
     @@ "number_of_persons_injured" :> Str(<<"2">>)
     @@ "number_of_pedestrians_injured" :> Str(<<"1">>)
     @@ "number_of_cyclist_injured" :> Str(<<"0">>)
     @@ "number_of_motorist_injured" :> Str(<<"1">>)
     @@ "number_of_persons_killed" :> Str(<<"0">>)
     @@ "number_of_pedestrians_killed" :> Str(<<"0">>)
     @@ "number_of_cyclist_killed" :> Str(<<"0">>)
     @@ "number_of_motorist_killed" :> Str(<<"0">>))

\* a time that does not parse
RecordBadTime ==
    ("crash_date" :> Str(<<"2", "0", "2", "1", "-", "0", "9", "-", "1", "1", "T", "0", "0", ":", "0", "0", ":", "0", "0", ".", "0", "0", "0">>)
     @@ "crash_time" :> Str(<<"2", "5", ":", "0", "0">>)
     @@ "latitude" :> Str(<<"4", "0", ".", "7">>)
     @@ "longitude" :> Str(<<"-", "7", "4", ".", "0">>)
     @@ "on_street_name" :> Str(<<"B", "R", "O", "A", "D", "W", "A", "Y">>)
     @@ "number_of_persons_injured" :> Str(<<"2">>)
     @@ "number_of_pedestrians_injured" :> Str(<<"1">>)
     @@ "number_of_cyclist_injured" :> Str(<<"0">>)
     @@ "number_of_motorist_injured" :> Str(<<"1">>)
     @@ "number_of_persons_killed" :> Str(<<"0">>)
     @@ "number_of_pedestrians_killed" :> Str(<<"0">>)
     @@ "number_of_cyclist_killed" :> Str(<<"0">>)
     @@ "number_of_motorist_killed" :> Str(<<"0">>))

\* no time
RecordNoTime ==
    ("crash_date" :> Str(<<"2", "0", "2", "1", "-", "0", "9", "-", "1", "1", "T", "0", "0", ":", "0", "0", ":", "0", "0", ".", "0", "0", "0">>)
     @@ "crash_time" :> NaN
     @@ "latitude" :> Str(<<"4", "0", ".", "7">>)
     @@ "longitude" :> Str(<<"-", "7", "4", ".", "0">>)
     @@ "on_street_name" :> Str(<<"B", "R", "O", "A", "D", "W", "A", "Y">>)
     @@ "number_of_persons_injured" :> Str(<<"2">>)
     @@ "number_of_pedestrians_injured" :> Str(<<"1">>)
     @@ "number_of_cyclist_injured" :> Str(<<"0">>)
     @@ "number_of_motorist_injured" :> Str(<<"1">>)
     @@ "number_of_persons_killed" :> Str(<<"0">>)
     @@ "number_of_pedestrians_killed" :> Str(<<"0">>)
     @@ "number_of_cyclist_killed" :> Str(<<"0">>)
     @@ "number_of_motorist_killed" :> Str(<<"0">>))

\* a latitude that is no number
RecordBadLatitude ==
    ("crash_date" :> Str(<<"2", "0", "2", "1", "-", "0", "9", "-", "1", "1", "T", "0", "0", ":", "0", "0", ":", "0", "0", ".", "0", "0", "0">>)
     @@ "crash_time" :> Str(<<"1", "7", ":", "0", "5">>)
     @@ "latitude" :> Str(<<"N", "/", "A">>)
     @@ "longitude" :> Str(<<"-", "7", "4", ".", "0">>)
     @@ "on_street_name" :> Str(<<"B", "R", "O", "A", "D", "W", "A", "Y">>)
     @@ "number_of_persons_injured" :> Str(<<"2">>)
     @@ "number_of_pedestrians_injured" :> Str(<<"1">>)
     @@ "number_of_cyclist_injured" :> Str(<<"0">>)
     @@ "number_of_motorist_injured" :> Str(<<"1">>)
     @@ "number_of_persons_killed" :> Str(<<"0">>)
     @@ "number_of_pedestrians_killed" :> Str(<<"0">>)
     @@ "number_of_cyclist_killed" :> Str(<<"0">>)
     @@ "number_of_motorist_killed" :> Str(<<"0">>))

RawRecordPool ==
    {RecordInside, RecordOnCorner, RecordOutside, RecordNoLatitude,
     RecordBadDate, RecordBadTime, RecordNoTime, RecordBadLatitude}

\* the sequences of at most n elements of S
SeqsUpTo(S, n) == UNION {[1..k -> S] : k \in 0..n}

(***************************************************************************)
(* map_of_the_incident: the points of the map.                             *)
(***************************************************************************)
MetricKinds ==
    {"Total Injured", "Pedestrians Injured", "Cyclists Injured",
     "Motorists Injured", "Total Killed", "Pedestrians Killed",
     "Cyclists Killed", "Motorists Killed"}

\* lines 86: the slider of num_people
SliderMin == 0
SliderMax == 15

\* lines 87-102: the column each selection queries
MetricColumn(select) ==
    IF select = "Total Injured" THEN "number_of_persons_injured"
    ELSE IF select = "Pedestrians Injured" THEN "number_of_pedestrians_injured"
    ELSE IF select = "Cyclists Injured" THEN "number_of_cyclist_injured"
    ELSE IF select = "Motorists Injured" THEN "number_of_motorist_injured"
    ELSE IF select = "Total Killed" THEN "number_of_persons_killed"
    ELSE IF select = "Pedestrians Killed" THEN "number_of_pedestrians_killed"
    ELSE IF select = "Cyclists Killed" THEN "number_of_cyclist_killed"
    ELSE "number_of_motorist_killed"

\* a comparison that reads a missing value as 0; the map selection is also
\* checked with it in place of AtLeast
AtLeastMissingAsZero(c, k) == IF c.t = "num" THEN c.n >= k * c.d ELSE 0 >= k

\* the comparison "column >= k" of df.query on one cell: False on a
\* missing value
AtLeast(c, k) == c.t = "num" /\ c.n >= k * c.d

\* df.query("<column> >= @num_people")[["latitude", "longitude"]].dropna(how="any")
QueryData(df, select, num_people) ==
    LET hit == Filter(df.rows,
                      LAMBDA r : AtLeast(r.v[MetricColumn(select)], num_people))
        kept == Filter(hit, LAMBDA r : /\ ~IsNull(r.v["latitude"])
                                       /\ ~IsNull(r.v["longitude"]))
    IN  [i \in 1..Len(kept) |->
           [idx |-> kept[i].idx,
            latitude |-> kept[i].v["latitude"],
            longitude |-> kept[i].v["longitude"]]]

(***************************************************************************)
(* helper.number_of_outliers.                                              *)
(***************************************************************************)
\* the dtype of a column of the frame scrub_data returns
DType(c) ==
    IF c \in {"crash_date", "crash_time", "on_street_name"} THEN "object"
    ELSE IF c = "date/time" THEN "datetime64" ELSE "float64"

\* line 93: df.select_dtypes(exclude = 'object')
SelectDtypesExcludeObject(df) ==
    SelectSeq(df.columns, LAMBDA c : DType(c) # "object")

\* days of the proleptic Gregorian calendar before the date (y, m, d)
RECURSIVE DaysBeforeMonth(_, _)
DaysBeforeMonth(y, m) ==
    IF m = 1 THEN 0 ELSE DaysBeforeMonth(y, m - 1) + DaysInMonth(y, m - 1)
DayNumber(y, m, d) ==
    365 * (y - 1) + ((y - 1) \div 4) - ((y - 1) \div 100) + ((y - 1) \div 400)
    + DaysBeforeMonth(y, m) + d

\* the non-missing values of column c as integers on one scale: numbers in
\* units of 1/scale, timestamps in minutes since 1970-01-01 00:00
MaxOf(S) == IF S = {} THEN 1
            ELSE LET x == CHOOSE x \in S : \A z \in S : z <= x IN x
ColumnScale(df, c) ==
    MaxOf({df.rows[i].v[c].d :
             i \in {j \in 1..Len(df.rows) : df.rows[j].v[c].t = "num"}})
Ordinal(cell, scale) ==
    IF cell.t = "ts"
    THEN ((DayNumber(cell.y, cell.mo, cell.d) - DayNumber(1970, 1, 1)) * 24
          + cell.h) * 60 + cell.mi
    ELSE cell.n * (scale \div cell.d)
ColumnValues(df, c) ==
    LET present == SelectSeq(df.rows, LAMBDA r : ~IsNull(r.v[c]))
    IN  [i \in 1..Len(present) |-> Ordinal(present[i].v[c], ColumnScale(df, c))]

\* the values of q in ascending order
RECURSIVE SortAsc(_)
SortAsc(q) ==
    IF Len(q) = 0 THEN <<>>
    ELSE LET k == CHOOSE i \in 1..Len(q) : \A j \in 1..Len(q) : q[i] <= q[j]
         IN  <<q[k]>> \o SortAsc(SubSeq(q, 1, k - 1) \o SubSeq(q, k + 1, Len(q)))

\* four times the quantile k/4 of the sorted values a (linear interpolation
\* between the neighbours of position (n-1)k/4), a non-empty
Quantile4(a, k) ==
    LET pos4 == k * (Len(a) - 1)
        i == pos4 \div 4
        r == pos4 % 4
    IN  IF r = 0 THEN 4 * a[i + 1]
        ELSE 4 * a[i + 1] + r * (a[i + 2] - a[i + 1])

\* lines 94-97 for one column: the number of values below Q1 - 1.5 IQR or
\* above Q3 + 1.5 IQR (all compared at eight times their size)
CountOutliers(values) ==
    IF Len(values) = 0 THEN 0
    ELSE LET a == SortAsc(values)
             q1 == Quantile4(a, 1)
             q3 == Quantile4(a, 3)
             iqr == q3 - q1
             lower == 2 * q1 - 3 * iqr
             upper == 2 * q3 + 3 * iqr
         IN  Cardinality({i \in 1..Len(values) :
                            8 * values[i] < lower \/ 8 * values[i] > upper})

\* lines 93-99: one row (variable, count_of_outliers) per selected column
number_of_outliers(df) ==
    LET cols == SelectDtypesExcludeObject(df)
    IN  [i \in 1..Len(cols) |->
           [variable |-> cols[i],
            count_of_outliers |-> CountOutliers(ColumnValues(df, cols[i]))]]

(***************************************************************************)
(* map_of_the_incident_freq_hist and gen_chart_hist_by_min.                *)
(***************************************************************************)
HourMin == 0
HourMax == 23

\* line 131: df[df["date/time"].dt.hour == hour]
SelectHour(df, hour) ==
    [df EXCEPT !.rows = Filter(df.rows, LAMBDA r : r.v["date/time"].h = hour)]

\* a filter whose upper end wraps at midnight, empty for hour 23; the
\* histogram property is also checked with it in place of FilterHourRange
FilterHourRangeWrapped(df, hour) ==
    [df EXCEPT !.rows =
        Filter(df.rows, LAMBDA r : /\ r.v["date/time"].h >= hour
                                   /\ r.v["date/time"].h < (hour + 1) % 24)]

\* lines 181-183
FilterHourRange(df, hour) ==
    [df EXCEPT !.rows =
        Filter(df.rows, LAMBDA r : /\ r.v["date/time"].h >= hour
                                   /\ r.v["date/time"].h < hour + 1)]

\* line 184: bins and range of the histogram
HistBins == 60
HistRangeLow == 0
HistRangeHigh == 60

\* the bin np.histogram puts x in: equal-width bins over [low, high], the
\* last bin closed on the right; -1 for a value outside the range
BinOf(x, bins, low, high) ==
    IF x < low \/ x > high THEN 0 - 1
    ELSE IF x = high THEN bins - 1
    ELSE ((x - low) * bins) \div (high - low)

\* np.histogram(values, bins=bins, range=(low, high))[0]
Histogram(values, bins, low, high) ==
    [b \in 0..(bins - 1) |->
        Cardinality({i \in 1..Len(values) :
                       BinOf(values[i], bins, low, high) = b})]

\* line 184: the histogram of the minutes of the filtered rows
MinuteHistogram(df, hour) ==
    LET filtered == FilterHourRange(df, hour)
        minutes == [i \in 1..Len(filtered.rows) |->
                      filtered.rows[i].v["date/time"].mi]
    IN  Histogram(minutes, HistBins, HistRangeLow, HistRangeHigh)

(***************************************************************************)
(* create_table_incident_by_street.                                        *)
(***************************************************************************)
AffectedClasses == {"Pedestrians", "Cyclists", "Motorists"}

\* lines 203-208: the column of each affected class
ClassColumn(select) ==
    IF select = "Pedestrians" THEN "number_of_pedestrians_injured"
    ELSE IF select = "Cyclists" THEN "number_of_cyclist_injured"
    ELSE "number_of_motorist_injured"

\* line 204: the slice [:5]
TopK == 5

\* a >= b for two numeric cells
CellGe(a, b) == a.n * b.d >= b.n * a.d

\* sort_values(by=[c], ascending=False) with the default kind='quicksort',
\* which is not stable: every order of the rows in which the values of c
\* never increase is an order the sort may return.  The orders are
\* sequences of positions of q; P is the set of positions still to place.
RECURSIVE SortValuesDescending(_, _, _)
SortValuesDescending(q, P, c) ==
    IF P = {} THEN {<<>>}
    ELSE LET top == {i \in P : \A j \in P : CellGe(q[i].v[c], q[j].v[c])}
         IN  UNION {{<<i>> \o rest : rest \in SortValuesDescending(q, P \ {i}, c)} :
                      i \in top}

\* the projection without the slice [:5]; the table property is also
\* checked with it in place of DropnaHead
DropnaNoHead(q, order, c) ==
    LET kept == SelectSeq(order, LAMBDA i : /\ ~IsNull(q[i].v["on_street_name"])
                                            /\ ~IsNull(q[i].v[c]))
    IN  [k \in 1..Len(kept) |->
           [idx |-> q[kept[k]].idx,
            on_street_name |-> q[kept[k]].v["on_street_name"],
            count |-> q[kept[k]].v[c]]]

\* .dropna(how="any")[:5] of the two projected columns, for one order the
\* sort returned
DropnaHead(q, order, c) ==
    LET kept == SelectSeq(order, LAMBDA i : /\ ~IsNull(q[i].v["on_street_name"])
                                            /\ ~IsNull(q[i].v[c]))
        head == SubSeq(kept, 1, IF Len(kept) < TopK THEN Len(kept) ELSE TopK)
    IN  [k \in 1..Len(head) |->
           [idx |-> q[head[k]].idx,
            on_street_name |-> q[head[k]].v["on_street_name"],
            count |-> q[head[k]].v[c]]]

\* lines 203-208: the tables the statement may hand to st.write
StreetTables(df, select) ==
    LET c == ClassColumn(select)
        hit == {i \in 1..Len(df.rows) : AtLeast(df.rows[i].v[c], 1)}
    IN  {DropnaHead(df.rows, order, c) :
           order \in SortValuesDescending(df.rows, hit, c)}

(***************************************************************************)
(* Records for the runs that follow the street table: they differ in the   *)
(* street and in the injured counts of the three affected classes.         *)
(***************************************************************************)
\* street A
StreetRecordA ==
    ("crash_date" :> Str(<<"2", "0", "2", "1", "-", "0", "9", "-", "1", "1">>)
     @@ "crash_time" :> Str(<<"1", "7", ":", "0", "5">>)
     @@ "latitude" :> Str(<<"4", "0", ".", "7">>)
     @@ "longitude" :> Str(<<"-", "7", "4", ".", "0">>)
     @@ "on_street_name" :> Str(<<"A">>)
     @@ "number_of_persons_injured" :> Str(<<"2">>)
     @@ "number_of_pedestrians_injured" :> Str(<<"5">>)
     @@ "number_of_cyclist_injured" :> Str(<<"1">>)
     @@ "number_of_motorist_injured" :> Str(<<"0">>)
     @@ "number_of_persons_killed" :> Str(<<"0">>)
     @@ "number_of_pedestrians_killed" :> Str(<<"0">>)
     @@ "number_of_cyclist_killed" :> Str(<<"0">>)
     @@ "number_of_motorist_killed" :> Str(<<"0">>))

\* no street name, a motorist count that is no number
StreetRecordNoName ==
    ("crash_date" :> Str(<<"2", "0", "2", "1", "-", "0", "9", "-", "1", "1">>)
     @@ "crash_time" :> Str(<<"1", "7", ":", "0", "5">>)
     @@ "latitude" :> Str(<<"4", "0", ".", "7">>)
     @@ "longitude" :> Str(<<"-", "7", "4", ".", "0">>)
     @@ "on_street_name" :> NaN
     @@ "number_of_persons_injured" :> Str(<<"2">>)
     @@ "number_of_pedestrians_injured" :> Str(<<"3">>)
     @@ "number_of_cyclist_injured" :> Str(<<"2">>)
     @@ "number_of_motorist_injured" :> Str(<<"x">>)
     @@ "number_of_persons_killed" :> Str(<<"0">>)
     @@ "number_of_pedestrians_killed" :> Str(<<"0">>)
     @@ "number_of_cyclist_killed" :> Str(<<"0">>)
     @@ "number_of_motorist_killed" :> Str(<<"0">>))

\* street B, no motorist count
StreetRecordB ==
    ("crash_date" :> Str(<<"2", "0", "2", "1", "-", "0", "9", "-", "1", "1">>)
     @@ "crash_time" :> Str(<<"1", "7", ":", "0", "5">>)
     @@ "latitude" :> Str(<<"4", "0", ".", "7">>)
     @@ "longitude" :> Str(<<"-", "7", "4", ".", "0">>)
     @@ "on_street_name" :> Str(<<"B">>)
     @@ "number_of_persons_injured" :> Str(<<"2">>)
     @@ "number_of_pedestrians_injured" :> Str(<<"1">>)
     @@ "number_of_cyclist_injured" :> Str(<<"3">>)
     @@ "number_of_motorist_injured" :> NaN
     @@ "number_of_persons_killed" :> Str(<<"0">>)
     @@ "number_of_pedestrians_killed" :> Str(<<"0">>)
     @@ "number_of_cyclist_killed" :> Str(<<"0">>)
     @@ "number_of_motorist_killed" :> Str(<<"0">>))

StreetRecordPool == {StreetRecordA, StreetRecordNoName, StreetRecordB}

(***************************************************************************)
(* State.                                                                  *)
(***************************************************************************)
VARIABLES
    remote,    \* the records the remote dataset holds, in the order it serves them
    cache,     \* the store of st.cache_data for load_data: row limit -> frame
    lock,      \* per row limit, the session computing its value (0: none)
    sess       \* per session, the state of its run of the script

vars == <<remote, cache, lock, sess>>

\* line 253: gen_dashboard(10000)
DashboardRows == 10000

MaxSessions == 2      \* sessions that request loads concurrently

AllLimits == (1..MaxLimit) \cup {DashboardRows}

NoView == [kind |-> "none"]
NotCalled == [called |-> FALSE, exc |-> "none", ret |-> EmptyFrame]

\* a session about to run the script: no local is bound yet.  pc is the
\* line of gen_dashboard the run has reached, exc the exception that ended
\* the run and tb the function that raised it.
FreshSession ==
    [pc |-> "start", nrows |-> 0, df |-> EmptyFrame,
     exc |-> "none", tb |-> "none",
     data |-> EmptyFrame, hour |-> HourMin - 1, view |-> NoView,
     again |-> NotCalled]

\* client.get("h9gi-nx95", limit=nrows): the first nrows records
Take(q, n) == SubSeq(q, 1, IF Len(q) < n THEN Len(q) ELSE n)

(***************************************************************************)
(* load_data under @st.cache_data(persist=True): the wrapper reads the      *)
(* store by the argument; on a miss it takes the lock of that key, reads   *)
(* the store again, and only then calls the function and writes the store. *)
(* The store keeps a serialized copy, so a caller's frame is its own.      *)
(***************************************************************************)
CacheHit(c, n) == n \in DOMAIN c

\* a wrapper that does not read the store again once it holds the lock;
\* the fetch property is also checked with it in place of ReadUnderLock
ReadUnderLockSkipped(c, n) == FALSE

\* the second read of the store, made holding the lock of the key
ReadUnderLock(c, n) == CacheHit(c, n)

LoadData(s, n) ==
    /\ sess[s].pc = "start"
    /\ sess' = [sess EXCEPT ![s].nrows = n,
                            ![s].pc = IF CacheHit(cache, n) THEN "loaded" ELSE "miss",
                            ![s].df = IF CacheHit(cache, n) THEN cache[n] ELSE @]
    /\ UNCHANGED <<remote, cache, lock>>

AcquireComputeLock(s) ==
    LET n == sess[s].nrows
    IN  /\ sess[s].pc = "miss"
        /\ lock[n] = 0
        /\ IF ReadUnderLock(cache, n)
           THEN /\ sess' = [sess EXCEPT ![s].pc = "loaded", ![s].df = cache[n]]
                /\ UNCHANGED lock
           ELSE /\ sess' = [sess EXCEPT ![s].pc = "compute"]
                /\ lock' = [lock EXCEPT ![n] = s]
        /\ UNCHANGED <<remote, cache>>

\* lines 24-28 and the write of the store; the fetch may fail, and then
\* nothing is stored and the exception ends the run of the script
ComputeValue(s) ==
    /\ sess[s].pc = "compute"
    /\ \E n \in {sess[s].nrows} : \E df \in {FromRecords(Take(remote, n))} :
        /\ lock' = [lock EXCEPT ![n] = 0]
        /\ \/ /\ cache' = [k \in DOMAIN cache \cup {n} |->
                             IF k = n THEN df ELSE cache[k]]
              /\ sess' = [sess EXCEPT ![s].pc = "loaded", ![s].df = df]
           \/ /\ sess' = [sess EXCEPT ![s].pc = "raised",
                                      ![s].exc = "SourceUnavailable",
                                      ![s].tb = "load_data"]
              /\ UNCHANGED cache
        /\ UNCHANGED remote

(***************************************************************************)
(* gen_dashboard, line by line.                                            *)
(***************************************************************************)
\* line 234: data = scrub_data(data)
ScrubData(s) ==
    /\ sess[s].pc = "loaded"
    /\ \E r \in {scrub_data(sess[s].df)} :
        /\ sess' = [sess EXCEPT ![s].df = r.df,
                                ![s].exc = r.exc,
                                ![s].tb = IF r.exc = "none" THEN "none" ELSE "scrub_data",
                                ![s].data = r.ret,
                                ![s].pc = IF r.exc = "none" THEN "map" ELSE "raised"]
        /\ UNCHANGED <<remote, cache, lock>>

\* an assignment that would reach the caller's frame; the property that the
\* views leave the records alone is also checked with it in place of
\* CallerFrame
CallerFrameRebound(df, rebound) == rebound

\* the frame the caller's name refers to after a callee has assigned
\* `rebound` to its own parameter df (line 131, helper.py line 93): the
\* assignment binds the callee's local name only
CallerFrame(df, rebound) == df

\* line 237: map_of_the_incident(data); the analysis panel calls
\* helper.exploratory_data_analysis, of which the outlier table is followed
MapOfTheIncident(s) ==
    /\ sess[s].pc = "map"
    /\ \E select \in MetricKinds, num_people \in SliderMin..SliderMax,
          analyze \in BOOLEAN, vizuals \in SUBSET {"Outlier Analysis"} :
          LET df == sess[s].data
              shown == analyze /\ "Outlier Analysis" \in vizuals
          IN  sess' = [sess EXCEPT
                  ![s].pc = "freq",
                  ![s].data = IF shown
                              THEN CallerFrame(df,
                                       [df EXCEPT !.columns =
                                            SelectDtypesExcludeObject(df)])
                              ELSE df,
                  ![s].view = [kind |-> "map",
                               select |-> select,
                               num_people |-> num_people,
                               query_data |-> QueryData(df, select, num_people),
                               outliers_shown |-> shown,
                               outliers |-> IF shown THEN number_of_outliers(df)
                                            ELSE <<>>]]
    /\ UNCHANGED <<remote, cache, lock>>

\* the rows of the layer of the density map: df[['date/time', 'latitude', 'longitude']]
LayerData(df) ==
    [i \in 1..Len(df.rows) |->
       [idx |-> df.rows[i].idx,
        datetime |-> df.rows[i].v["date/time"],
        latitude |-> df.rows[i].v["latitude"],
        longitude |-> df.rows[i].v["longitude"]]]

\* line 241: hour = map_of_the_incident_freq_hist(data)
MapOfTheIncidentFreqHist(s) ==
    /\ sess[s].pc = "freq"
    /\ \E hour \in HourMin..HourMax :
          LET df == sess[s].data
          IN  sess' = [sess EXCEPT
                  ![s].pc = "chart",
                  ![s].hour = hour,
                  ![s].data = CallerFrame(df, SelectHour(df, hour)),
                  ![s].view = [kind |-> "freq",
                               hour |-> hour,
                               layer |-> LayerData(SelectHour(df, hour))]]
    /\ UNCHANGED <<remote, cache, lock>>

\* line 245: gen_chart_hist_by_min(data, hour)
GenChartHistByMin(s) ==
    /\ sess[s].pc = "chart"
    /\ LET df == sess[s].data
           hour == sess[s].hour
       IN  sess' = [sess EXCEPT
               ![s].pc = "table",
               ![s].view = [kind |-> "chart",
                            hour |-> hour,
                            crashes |-> MinuteHistogram(df, hour)]]
    /\ UNCHANGED <<remote, cache, lock>>

\* line 249: create_table_incident_by_street(data)
CreateTableIncidentByStreet(s) ==
    /\ sess[s].pc = "table"
    /\ \E select \in AffectedClasses :
          LET df == sess[s].data
          IN  IF ~HasCol(df, "on_street_name")
              THEN sess' = [sess EXCEPT ![s].pc = "raised",
                                        ![s].exc = "KeyError",
                                        ![s].tb = "create_table_incident_by_street"]
              ELSE \E table \in StreetTables(df, select) :
                      sess' = [sess EXCEPT
                          ![s].pc = "done",
                          ![s].view = [kind |-> "table",
                                       select |-> select,
                                       table |-> table]]
    /\ UNCHANGED <<remote, cache, lock>>

\* an interaction of the user, or a reload after an exception, runs the
\* script again from its first line
Rerun(s) ==
    /\ sess[s].pc \in {"done", "raised"}
    /\ sess' = [sess EXCEPT ![s] = FreshSession]
    /\ UNCHANGED <<remote, cache, lock>>

\* a second call of scrub_data on the frame the first call was given
ScrubDataAgain(s) ==
    /\ \/ sess[s].pc = "map"
       \/ sess[s].pc = "raised" /\ sess[s].tb = "scrub_data"
    /\ \E r \in {scrub_data(sess[s].df)} :
        /\ sess' = [sess EXCEPT ![s].df = r.df,
                                ![s].again = [called |-> TRUE,
                                              exc |-> r.exc,
                                              ret |-> r.ret],
                                ![s].pc = "twice"]
        /\ UNCHANGED <<remote, cache, lock>>

\* load_data has returned to a caller that only loads; its next request
LoadReturned(s) ==
    /\ sess[s].pc = "loaded"
    /\ sess' = [sess EXCEPT ![s] = FreshSession]
    /\ UNCHANGED <<remote, cache, lock>>

(***************************************************************************)
(* Specifications.                                                         *)
(***************************************************************************)
EmptyCache == [k \in {} |-> EmptyFrame]

InitShared ==
    /\ cache = EmptyCache
    /\ lock = [n \in AllLimits |-> 0]

\* one session runs the dashboard over a dataset of at most MaxRows records
Init ==
    /\ remote \in SeqsUpTo(RawRecordPool, MaxRows)
    /\ InitShared
    /\ sess = [s \in {1} |-> FreshSession]

Next ==
    \/ \E s \in DOMAIN sess : LoadData(s, DashboardRows)
    \/ \E s \in DOMAIN sess : AcquireComputeLock(s)
    \/ \E s \in DOMAIN sess : ComputeValue(s)
    \/ \E s \in DOMAIN sess : ScrubData(s)
    \/ \E s \in DOMAIN sess : MapOfTheIncident(s)
    \/ \E s \in DOMAIN sess : MapOfTheIncidentFreqHist(s)
    \/ \E s \in DOMAIN sess : GenChartHistByMin(s)
    \/ \E s \in DOMAIN sess : CreateTableIncidentByStreet(s)
    \/ \E s \in DOMAIN sess : Rerun(s)

Spec == Init /\ [][Next]_vars

\* scrub_data called twice on one frame
NextTwice ==
    \/ \E s \in DOMAIN sess : LoadData(s, DashboardRows)
    \/ \E s \in DOMAIN sess : AcquireComputeLock(s)
    \/ \E s \in DOMAIN sess : ComputeValue(s)
    \/ \E s \in DOMAIN sess : ScrubData(s)
    \/ \E s \in DOMAIN sess : ScrubDataAgain(s)

SpecTwice == Init /\ [][NextTwice]_vars

\* sessions that request loads of several row limits, concurrently
InitLoad ==
    /\ remote \in SeqsUpTo({RecordInside}, MaxLimit)
    /\ InitShared
    /\ sess = [s \in 1..MaxSessions |-> FreshSession]

NextLoad ==
    \/ \E s \in DOMAIN sess : \E n \in 1..MaxLimit : LoadData(s, n)
    \/ \E s \in DOMAIN sess : AcquireComputeLock(s)
    \/ \E s \in DOMAIN sess : ComputeValue(s)
    \/ \E s \in DOMAIN sess : LoadReturned(s)
    \/ \E s \in DOMAIN sess : Rerun(s)

SpecLoad == InitLoad /\ [][NextLoad]_vars

\* create_table_incident_by_street applied to the frames scrub_data returns
\* for datasets of at most MaxStreetRows records
InitStreet ==
    /\ remote \in SeqsUpTo(StreetRecordPool, MaxStreetRows)
    /\ \E raw \in {FromRecords(Take(remote, DashboardRows))} :
       \E r \in {scrub_data(raw)} :
           /\ r.exc = "none"
           /\ cache = [k \in {DashboardRows} |-> raw]
           /\ sess = [s \in {1} |->
                        [FreshSession EXCEPT !.pc = "table",
                                             !.nrows = DashboardRows,
                                             !.df = r.df,
                                             !.data = r.ret]]
    /\ lock = [n \in AllLimits |-> 0]

NextStreet == \E s \in DOMAIN sess : CreateTableIncidentByStreet(s)

SpecStreet == InitStreet /\ [][NextStreet]_vars


(***************************************************************************)
(* Properties.                                                             *)
(***************************************************************************)
\* scrub_data has returned in the run of session s and `data` is bound
Scrubbed(s) == sess[s].pc \in {"map", "freq", "chart", "table", "done"}

\* the call of scrub_data of the run of session s has ended, by a return or
\* by an exception
ScrubEnded(s) ==
    \/ Scrubbed(s)
    \/ sess[s].pc = "raised" /\ sess[s].tb = "scrub_data"

\* the records the run of session s was loaded with
Batch(s) == Take(remote, sess[s].nrows)

\* C1: after scrub_data returns, every record of the RecordSet has a numeric
\* latitude in [40.4, 41.0] and a numeric longitude in [-74.3, -73.7], the
\* bounds included.
C1_RecordsInsideBox ==
    \A s \in DOMAIN sess :
        Scrubbed(s) =>
            \A i \in 1..Len(sess[s].data.rows) :
                LET lat == sess[s].data.rows[i].v["latitude"]
                    lon == sess[s].data.rows[i].v["longitude"]
                IN  /\ lat.t = "num" /\ lon.t = "num"
                    /\ 10 * lat.n >= 404 * lat.d /\ 10 * lat.n <= 410 * lat.d
                    /\ 10 * lon.n >= (0 - 743) * lon.d
                    /\ 10 * lon.n <= (0 - 737) * lon.d

\* C1: scrub_data has returned a RecordSet that holds a record and lacks a
\* record of the batch whose coordinates are numeric and outside the box.
C1_RecordDroppedOutsideBox ==
    \E s \in DOMAIN sess :
        /\ Scrubbed(s)
        /\ Len(sess[s].data.rows) = 1
        /\ Len(sess[s].df.rows) = 2
        /\ \E i \in 1..Len(sess[s].df.rows) :
              /\ sess[s].df.rows[i].v["latitude"].t = "num"
              /\ ~(\E k \in 1..Len(sess[s].data.rows) :
                      sess[s].data.rows[k].idx = sess[s].df.rows[i].idx)

\* a record whose date or time is missing or cannot be parsed
BadDateTime(rec) ==
    \/ IsNull(rec["crash_date"])
    \/ IsNull(rec["crash_time"])
    \/ ~IsNull(rec["crash_date"]) /\ ~ParseDate(rec["crash_date"].s).ok
    \/ ~IsNull(rec["crash_time"]) /\ ~ParseTime(rec["crash_time"].s).ok

\* a record with a coordinate that is present and is not a number
BadCoordinate(rec) ==
    \E c \in {"latitude", "longitude"} :
        ~IsNull(rec[c]) /\ ~ParseDecimal(rec[c].s).ok

\* every field occurs in some record of the batch, so that the frame built
\* from it has every column
AllFieldsOccur(batch) ==
    \A j \in 1..Len(RawColumns) :
        \E i \in 1..Len(batch) : ~IsNull(batch[i][RawColumns[j]])

\* C2: a record whose date or time is missing or cannot be parsed is left
\* out of the RecordSet and scrub_data returns the RecordSet built from the
\* other records.  Stated for the batches whose only defect is in dates and
\* times.
C2_BadDateTimeDropped ==
    \A s \in DOMAIN sess :
        (/\ ScrubEnded(s)
         /\ AllFieldsOccur(Batch(s))
         /\ \E i \in 1..Len(Batch(s)) : BadDateTime(Batch(s)[i])
         /\ \A i \in 1..Len(Batch(s)) : ~BadCoordinate(Batch(s)[i]))
        => /\ sess[s].pc # "raised"
           /\ \A k \in 1..Len(sess[s].data.rows) :
                 ~BadDateTime(Batch(s)[sess[s].data.rows[k].idx + 1])

\* C3: a record whose latitude or longitude is present and not a number is
\* left out of the RecordSet, like a record without coordinates, and
\* scrub_data returns.  Stated for the batches whose dates and times all
\* parse.
C3_BadCoordinateDropped ==
    \A s \in DOMAIN sess :
        (/\ ScrubEnded(s)
         /\ AllFieldsOccur(Batch(s))
         /\ \E i \in 1..Len(Batch(s)) : BadCoordinate(Batch(s)[i])
         /\ \A i \in 1..Len(Batch(s)) : ~BadDateTime(Batch(s)[i]))
        => /\ sess[s].pc # "raised"
           /\ \A k \in 1..Len(sess[s].data.rows) :
                 ~BadCoordinate(Batch(s)[sess[s].data.rows[k].idx + 1])

\* the casualty field each selection of the map stands for
MetricFields ==
    [select \in MetricKinds |->
       CASE select = "Total Injured" -> "number_of_persons_injured"
         [] select = "Pedestrians Injured" -> "number_of_pedestrians_injured"
         [] select = "Cyclists Injured" -> "number_of_cyclist_injured"
         [] select = "Motorists Injured" -> "number_of_motorist_injured"
         [] select = "Total Killed" -> "number_of_persons_killed"
         [] select = "Pedestrians Killed" -> "number_of_pedestrians_killed"
         [] select = "Cyclists Killed" -> "number_of_cyclist_killed"
         [] select = "Motorists Killed" -> "number_of_motorist_killed"]

\* C4: for each of the 8 selections and every threshold in 0..15, the points
\* map_of_the_incident computes hold the coordinates of a record iff the
\* record's field for the selection is present and >= the threshold; a
\* missing field never passes, not even at threshold 0; the points come in
\* the order of the RecordSet.
C4_MapSelection ==
    \A s \in DOMAIN sess :
        sess[s].view.kind = "map" =>
            LET rows == sess[s].data.rows
                q == sess[s].view.query_data
                c == MetricFields[sess[s].view.select]
                k == sess[s].view.num_people
            IN  /\ sess[s].view.select \in MetricKinds
                /\ k \in 0..15
                /\ \A i \in 1..Len(rows) :
                      (\E j \in 1..Len(q) :
                          q[j] = [idx |-> rows[i].idx,
                                  latitude |-> rows[i].v["latitude"],
                                  longitude |-> rows[i].v["longitude"]])
                      <=> (rows[i].v[c].t = "num"
                           /\ rows[i].v[c].n >= k * rows[i].v[c].d)
                /\ \A j \in 1..Len(q) :
                      \E i \in 1..Len(rows) : rows[i].idx = q[j].idx
                /\ \A j, l \in 1..Len(q) : j < l => q[j].idx < q[l].idx

\* C4: the map has been computed at threshold 0 for the total of injured
\* over two records, one of which has no total and is not among the points.
C4_MissingExcludedAtZero ==
    \E s \in DOMAIN sess :
        /\ sess[s].view.kind = "map"
        /\ sess[s].view.select = "Total Injured"
        /\ sess[s].view.num_people = 0
        /\ Len(sess[s].data.rows) = 2
        /\ Len(sess[s].view.query_data) = 1
        /\ \E i \in 1..2 :
              IsNull(sess[s].data.rows[i].v["number_of_persons_injured"])

\* crashes[0] + ... + crashes[m]
RECURSIVE SumUpTo(_, _)
SumUpTo(crashes, m) ==
    IF m < 0 THEN 0 ELSE crashes[m] + SumUpTo(crashes, m - 1)

\* C5: for every hour in 0..23, 23 included, gen_chart_hist_by_min produces
\* exactly 60 counts; bucket m is the number of records whose timestamp has
\* that hour and minute m, and the counts sum to the number of records whose
\* hour lies in [hour, hour + 1).
C5_MinuteHistogram ==
    \A s \in DOMAIN sess :
        sess[s].view.kind = "chart" =>
            LET rows == sess[s].data.rows
                h == sess[s].view.hour
                crashes == sess[s].view.crashes
            IN  /\ h \in 0..23
                /\ DOMAIN crashes = 0..59
                /\ \A m \in 0..59 :
                      crashes[m] =
                          Cardinality({i \in 1..Len(rows) :
                                          /\ rows[i].v["date/time"].h = h
                                          /\ rows[i].v["date/time"].mi = m})
                /\ SumUpTo(crashes, 59) =
                      Cardinality({i \in 1..Len(rows) :
                                      /\ rows[i].v["date/time"].h >= h
                                      /\ rows[i].v["date/time"].h < h + 1})

\* C5: the histogram of hour 23 has been computed over a record of 23:59,
\* which it counts in its last bucket.
C5_LastMinuteOfDay ==
    \E s \in DOMAIN sess :
        /\ sess[s].view.kind = "chart"
        /\ sess[s].view.hour = 23
        /\ sess[s].view.crashes[59] = 1
        /\ Len(sess[s].data.rows) = 2

\* the part of the statement about the street table that does not depend on
\* the order of equal counts
TopFiveDescending(t) ==
    /\ Len(t) <= 5
    /\ \A k \in 1..Len(t) :
          /\ t[k].on_street_name.t = "str"
          /\ t[k].count.t = "num"
          /\ t[k].count.n >= t[k].count.d
    /\ \A k, l \in 1..Len(t) :
          k < l => t[k].count.n * t[l].count.d >= t[l].count.n * t[k].count.d

\* rows of the table with equal counts stand in the order of the RecordSet
TiesInArrivalOrder(t) ==
    \A k, l \in 1..Len(t) :
        (k < l /\ t[k].count.n * t[l].count.d = t[l].count.n * t[k].count.d)
            => t[k].idx < t[l].idx

\* C6, as amended: for each affected class the table of
\* create_table_incident_by_street has at most 5 rows, each with a street
\* name and a count >= 1, in descending order of count.  The order of rows
\* with equal counts is not determined.
C6_TopFiveDescending ==
    \A s \in DOMAIN sess :
        sess[s].view.kind = "table" => TopFiveDescending(sess[s].view.table)

\* C6, as stated: the above, and rows with equal counts appear in their
\* original RecordSet order.
C6_TopFiveStableTies ==
    \A s \in DOMAIN sess :
        sess[s].view.kind = "table" =>
            /\ TopFiveDescending(sess[s].view.table)
            /\ TiesInArrivalOrder(sess[s].view.table)

\* C6: a table of 5 rows has been built from 6 records that qualify, and it
\* shows two rows of equal count against their order in the RecordSet.
C6_TieOutOfArrivalOrder ==
    \E s \in DOMAIN sess :
        /\ sess[s].view.kind = "table"
        /\ Len(sess[s].view.table) = 5
        /\ Len(sess[s].data.rows) = 6
        /\ ~TiesInArrivalOrder(sess[s].view.table)

\* C7: calling scrub_data twice on the same raw input yields identical
\* RecordSets: the second call ends as the first did and returns what the
\* first returned.
C7_SecondCallSame ==
    \A s \in DOMAIN sess :
        sess[s].again.called =>
            /\ sess[s].again.exc = sess[s].exc
            /\ sess[s].again.ret = sess[s].data

\* C8: after scrub_data has returned, no view (map with its analysis panel,
\* hour selection, minute histogram, street table) changes the rows, the
\* order or the field values of the RecordSet the script holds.
C8_ViewsKeepRecordSet ==
    [][\A s \in DOMAIN sess :
          sess[s].pc \in {"map", "freq", "chart", "table"}
              => sess'[s].data = sess[s].data]_vars

\* C8: the four views have run over a RecordSet of two records, with an hour
\* selected that one of the records does not have.
C8_AllViewsRun ==
    \E s \in DOMAIN sess :
        /\ sess[s].pc = "done"
        /\ sess[s].view.kind = "table"
        /\ Len(sess[s].data.rows) = 2
        /\ \E i \in 1..2 : sess[s].data.rows[i].v["date/time"].h # sess[s].hour
        /\ \E i \in 1..2 : sess[s].data.rows[i].v["date/time"].h = sess[s].hour

\* C9: load_data is memoized by its row limit.  In any interleaving of the
\* requests of the sessions, a remote fetch is made only for a limit that
\* has not been loaded successfully, a request that returns hands out the
\* stored result of its limit, and a stored result is never replaced.
C9_LoadedLimitNotFetchedAgain ==
    [][/\ \A s \in DOMAIN sess :
             (sess[s].pc = "compute" /\ sess'[s].pc # "compute")
                 => sess[s].nrows \notin DOMAIN cache
       /\ \A s \in DOMAIN sess :
             (sess[s].pc # "loaded" /\ sess'[s].pc = "loaded")
                 => /\ sess'[s].nrows \in DOMAIN cache'
                    /\ sess'[s].df = cache'[sess'[s].nrows]
       /\ \A n \in DOMAIN cache :
             n \in DOMAIN cache' /\ cache'[n] = cache[n]]_vars

\* C9: a session that missed on a limit waits to read the store again while
\* another session has loaded that limit and has not yet returned.
C9_MissedWhileOtherLoaded ==
    \E s, o \in DOMAIN sess :
        /\ s # o
        /\ sess[s].pc = "miss"
        /\ sess[s].nrows \in DOMAIN cache
        /\ lock[sess[s].nrows] = 0
        /\ sess[o].pc = "loaded"
        /\ sess[o].nrows = sess[s].nrows

\* the fields of a RecordSet that hold numbers
NumericFields == {"latitude", "longitude"} \cup Range(numeric_data)

\* C10: number_of_outliers reports a row for every numeric field and for no
\* other field (strings, the timestamp); the count of a field is the number
\* of its values strictly below Q1 - 1.5 IQR or strictly above Q3 + 1.5 IQR;
\* the values 1, 2, 3, 4, 100 give Q1 = 2, Q3 = 4 and the count 1.
C10_OutlierReport ==
    /\ Quantile4(<<1, 2, 3, 4, 100>>, 1) = 4 * 2
    /\ Quantile4(<<1, 2, 3, 4, 100>>, 3) = 4 * 4
    /\ CountOutliers(<<1, 2, 3, 4, 100>>) = 1
    /\ \A s \in DOMAIN sess :
          (sess[s].view.kind = "map" /\ sess[s].view.outliers_shown) =>
              LET report == sess[s].view.outliers
              IN  /\ {report[k].variable : k \in 1..Len(report)} = NumericFields
                  /\ Len(report) = Cardinality(NumericFields)
                  /\ \A k \in 1..Len(report) :
                        report[k].variable \in NumericFields =>
                            report[k].count_of_outliers =
                                CountOutliers(ColumnValues(sess[s].data,
                                                           report[k].variable))

\* the views of gen_dashboard
ViewFunctions ==
    {"map_of_the_incident", "map_of_the_incident_freq_hist",
     "gen_chart_hist_by_min", "create_table_incident_by_street"}

\* a view that matches no record shows its empty result: no point, no row
\* of the layer, 60 zero buckets, an empty table
EmptyViewShown(s) ==
    LET rows == sess[s].data.rows
        view == sess[s].view
    IN  /\ (/\ view.kind = "map"
            /\ \A i \in 1..Len(rows) :
                  LET c == rows[i].v[MetricFields[view.select]]
                  IN  ~(c.t = "num" /\ c.n >= view.num_people * c.d))
           => view.query_data = <<>>
        /\ (/\ view.kind = "freq"
            /\ \A i \in 1..Len(rows) : rows[i].v["date/time"].h # view.hour)
           => view.layer = <<>>
        /\ (/\ view.kind = "chart"
            /\ \A i \in 1..Len(rows) : rows[i].v["date/time"].h # view.hour)
           => /\ DOMAIN view.crashes = 0..59
              /\ \A m \in 0..59 : view.crashes[m] = 0
        /\ (/\ view.kind = "table"
            /\ Len(rows) = 0)
           => view.table = <<>>

\* C11: zero rows is never an error.  When the input or the output of
\* scrub_data has zero rows, or a metric filter, an hour selection, a minute
\* histogram or a street table matches no record, scrub_data and every view
\* complete without raising and the view shows its empty result (no point,
\* 60 zero buckets, an empty table).
C11_ZeroRowsNoError ==
    \A s \in DOMAIN sess :
        /\ (ScrubEnded(s) /\ Len(Batch(s)) = 0)
               => (sess[s].pc # "raised" /\ Len(sess[s].data.rows) = 0)
        /\ (sess[s].pc = "raised" /\ Len(sess[s].data.rows) = 0)
               => sess[s].tb \notin ViewFunctions
        /\ EmptyViewShown(s)

=============================================================================
